---------------------------- MODULE Spec2Model ----------------------------
(***************************************************************************)
(* In-process resource management core of SpectXEngine:                    *)
(*   - RateLimiter  (src/unnamed/part_004, lines 251-302)                  *)
(*   - JobQueue     (src/packages/core/src/observability/metrics.ts,       *)
(*                   lines 119-229)                                        *)
(*   - InMemoryCache (src/packages/core/src/cache/in-memory.ts)            *)
(*   - RBACService  (src/packages/auth/src/rbac.ts)                        *)
(*   - RuntimeBootstrap (src/unnamed/part_004, lines 19-231)               *)
(* Each component owns its own state; the components share nothing.        *)
(***************************************************************************)
EXTENDS Integers, Sequences, FiniteSets, TLC

(***************************************************************************)
(* Bounds of the model.                                                    *)
(***************************************************************************)
\* last value of the simulated clock Date.now()
MaxNow == 3
\* largest RateLimitConfig.windowMs a limiter is constructed with
MaxWindowMs == 2
\* largest RateLimitConfig.maxRequests a limiter is constructed with
MaxMaxRequests == 1
\* number of enqueue calls made on one queue
MaxJobs == 2
\* largest maxAttempts argument passed to enqueue
MaxMaxAttempts == 2
\* largest CacheOptions.maxSize a cache is constructed with
MaxCacheSize == 2
\* longest userRoles array passed to hasPermission
MaxUserRoles == 2

\* identifiers handed to the rate limiter
Identifiers == {"a", "b"}

VARIABLES
    \* ---- RateLimiter ----
    now,            \* Date.now()
    config,         \* RateLimiter.config
    limits,         \* RateLimiter.limits : Map<string, RateLimitEntry>
    rlResult,       \* what the last RateLimiter call returned
    admitted,       \* history: per identifier, the times of the isAllowed calls
                    \* that returned true since the identifier was last reset
    \* ---- JobQueue ----
    jobs,           \* the Job objects allocated by enqueue, by allocation number
    queue,          \* JobQueue.queue (references to Job objects)
    deadLetterQueue,\* JobQueue.deadLetterQueue
    handlers,       \* JobQueue.handlers : Map<string, JobHandler>
    processing,     \* JobQueue.processing
    loops,          \* the activations of process() that are suspended at an await
    calls,          \* history: per job, how many times its handler was invoked
    appendLog,      \* history: the jobs pushed on queue, in push order
    dequeueLog,     \* history: the jobs shifted off queue, in shift order
    deathLog,       \* history: the calls of moveToDeadLetter, in order: the job
                    \* and what its handler threw (<<>>: there was no handler)
    returned,       \* history: the job ids the enqueue calls returned, in order
    escaped,        \* history: what left processJob as a rejection instead of
                    \* being caught (the rejections nobody handles)
    successLog,     \* history: the jobs whose handler invocation fulfilled, in
                    \* order
    snapshots,      \* the array the last getDeadLetterQueue call returned, as
                    \* the caller holds it: <<>> before the first call, <<a>>
                    \* after it (a holds references to Job objects)
    \* ---- InMemoryCache ----
    maxSize,        \* InMemoryCache.maxSize
    store,          \* InMemoryCache.store : Map<string, CacheEntry>, its entries
                    \* in the iteration order of the Map
    cacheResult,    \* what the last InMemoryCache call was and returned
    written,        \* history: per key, the value and the deadline (time of the
                    \* call + ttl) of its last set, until the key is set
                    \* again, deleted, evicted or cleared
    cleanRun,       \* history: the clock readings of the cleanup calls made
                    \* since the last other call on the cache (the last two)
    \* ---- RBACService ----
    rbacCall,       \* the last call made on the service and its arguments
    rbacResult,     \* what that call returned, and whether it threw
    \* ---- RuntimeBootstrap ----
    bootEnv,        \* what process.env holds
    bootConfig,     \* the config argument of start()
    bootPc,         \* where start() is: "idle" before the call, the step whose
                    \* promise it awaits, "done" or "failed" after it settled
    bootLog,        \* history: the steps start() has called, in call order
    bootResult,     \* the promise start() returned: its state and, when it
                    \* rejected, the message of the error
    bootCompleted,  \* history: 'Runtime bootstrap completed successfully' was
                    \* logged
    bootFailure,    \* history: <<>>, or the step that rejected and the message
                    \* of its error
    shutdownHandlers, \* how many times the SIGTERM and SIGINT handlers were
                    \* registered
    isShuttingDown, \* RuntimeBootstrap.isShuttingDown
    shutdownPc,     \* where shutdown() is: "none", "disconnecting", "exited"
    exitCode        \* the code process.exit was called with, -1 before

rlVars == <<now, config, limits, rlResult, admitted>>
jqVars == <<jobs, queue, deadLetterQueue, handlers, processing, loops,
            calls, appendLog, dequeueLog, deathLog, returned, escaped,
            successLog, snapshots>>
cacheVars == <<maxSize, store, cacheResult, written, cleanRun>>
rbacVars == <<rbacCall, rbacResult>>
bootVars == <<bootEnv, bootConfig, bootPc, bootLog, bootResult, bootCompleted,
              bootFailure, shutdownHandlers, isShuttingDown, shutdownPc,
              exitCode>>
vars == <<now, config, limits, rlResult, admitted,
          jobs, queue, deadLetterQueue, handlers, processing, loops,
          calls, appendLog, dequeueLog, deathLog, returned, escaped,
          successLog, snapshots,
          maxSize, store, cacheResult, written, cleanRun,
          rbacCall, rbacResult,
          bootEnv, bootConfig, bootPc, bootLog, bootResult, bootCompleted,
          bootFailure, shutdownHandlers, isShuttingDown, shutdownPc,
          exitCode>>

(***************************************************************************)
(* Generic helpers.                                                        *)
(***************************************************************************)
\* Map.set(k, v)
MapSet(m, k, v) == [x \in (DOMAIN m) \cup {k} |-> IF x = k THEN v ELSE m[x]]

\* variant: every key is removed
MapDeleteAll(m, k) == << >>

\* Map.delete(k)
MapDelete(m, k) == [x \in (DOMAIN m) \ {k} |-> m[x]]

\* the indices of s that hold x
Positions(s, x) == {i \in DOMAIN s : s[i] = x}

\* whether x is an element of sequence s
InSeq(s, x) == Positions(s, x) # {}

(***************************************************************************)
(* RateLimiter                                                             *)
(***************************************************************************)
\* RateLimitEntry after the "Reset window" branch of isAllowed
FreshEntry(t) == [requests |-> <<>>, lastReset |-> t]

\* variant: <= in place of <, a timestamp windowMs old is kept
InWindowInclusive(requests, t, windowMs) ==
    SelectSeq(requests, LAMBDA time : t - time <= windowMs)

\* entry.requests.filter((time) => now - time < windowMs)
InWindow(requests, t, windowMs) ==
    SelectSeq(requests, LAMBDA time : t - time < windowMs)

\* the entry isAllowed works on, after its reset branch
EntryForCheck(lim, identifier, t, windowMs) ==
    IF identifier \notin DOMAIN lim
       \/ t - lim[identifier].lastReset > windowMs
    THEN FreshEntry(t)
    ELSE lim[identifier]

\* variant: > in place of >=
IsAllowedStrict(lim, cfg, identifier, t) ==
    LET entry    == EntryForCheck(lim, identifier, t, cfg.windowMs)
        retained == InWindow(entry.requests, t, cfg.windowMs)
    IN  IF Len(retained) > cfg.maxRequests
        THEN [result |-> FALSE,
              limits |-> MapSet(lim, identifier,
                                [entry EXCEPT !.requests = retained])]
        ELSE [result |-> TRUE,
              limits |-> MapSet(lim, identifier,
                                [entry EXCEPT !.requests = Append(retained, t)])]

\* variant: the denied attempt is recorded too
IsAllowedRecordsDenied(lim, cfg, identifier, t) ==
    LET entry    == EntryForCheck(lim, identifier, t, cfg.windowMs)
        retained == InWindow(entry.requests, t, cfg.windowMs)
    IN  [result |-> ~(Len(retained) >= cfg.maxRequests),
         limits |-> MapSet(lim, identifier,
                           [entry EXCEPT !.requests = Append(retained, t)])]

\* isAllowed(identifier) at clock time t: the result and the new limits
IsAllowed(lim, cfg, identifier, t) ==
    LET entry    == EntryForCheck(lim, identifier, t, cfg.windowMs)
        retained == InWindow(entry.requests, t, cfg.windowMs)
    IN  IF Len(retained) >= cfg.maxRequests
        THEN [result |-> FALSE,
              limits |-> MapSet(lim, identifier,
                                [entry EXCEPT !.requests = retained])]
        ELSE [result |-> TRUE,
              limits |-> MapSet(lim, identifier,
                                [entry EXCEPT !.requests = Append(retained, t)])]

\* Math.max(0, x)
Max0(x) == IF x > 0 THEN x ELSE 0

\* variant: the timestamps that left the window are counted too
GetRemainingRequestsUnfiltered(lim, cfg, identifier, t) ==
    IF identifier \notin DOMAIN lim
    THEN cfg.maxRequests
    ELSE Max0(cfg.maxRequests - Len(lim[identifier].requests))

\* getRemainingRequests(identifier) at clock time t
GetRemainingRequests(lim, cfg, identifier, t) ==
    IF identifier \notin DOMAIN lim
    THEN cfg.maxRequests
    ELSE Max0(cfg.maxRequests
              - Len(InWindow(lim[identifier].requests, t, cfg.windowMs)))

\* new RateLimiter(config): no identifier is tracked
RLInit ==
    /\ now = 0
    /\ config \in [windowMs : 1..MaxWindowMs, maxRequests : 0..MaxMaxRequests]
    /\ limits = << >>
    /\ rlResult = [op |-> "none", identifier |-> "", value |-> 0]
    /\ admitted = [i \in Identifiers |-> <<>>]

\* the clock moves on between calls
AdvanceClock ==
    /\ now < MaxNow
    /\ now' = now + 1
    /\ UNCHANGED <<config, limits, rlResult, admitted>>
    /\ UNCHANGED jqVars
    /\ UNCHANGED <<cacheVars, rbacVars, bootVars>>

CallIsAllowed(identifier) ==
    LET r == IsAllowed(limits, config, identifier, now)
    IN  /\ limits' = r.limits
        /\ rlResult' = [op |-> "isAllowed", identifier |-> identifier,
                        value |-> IF r.result THEN 1 ELSE 0]
        /\ admitted' = IF r.result
                       THEN [admitted EXCEPT ![identifier] = Append(@, now)]
                       ELSE admitted
        /\ UNCHANGED <<now, config>>
        /\ UNCHANGED jqVars
        /\ UNCHANGED <<cacheVars, rbacVars, bootVars>>

CallGetRemainingRequests(identifier) ==
    /\ rlResult' = [op |-> "getRemainingRequests", identifier |-> identifier,
                    value |-> GetRemainingRequests(limits, config, identifier, now)]
    /\ UNCHANGED <<now, config, limits, admitted>>
    /\ UNCHANGED jqVars
    /\ UNCHANGED <<cacheVars, rbacVars, bootVars>>

\* reset(identifier)
CallReset(identifier) ==
    /\ limits' = MapDelete(limits, identifier)
    /\ rlResult' = [op |-> "reset", identifier |-> identifier, value |-> 0]
    /\ admitted' = [admitted EXCEPT ![identifier] = <<>>]
    /\ UNCHANGED <<now, config>>
    /\ UNCHANGED jqVars
    /\ UNCHANGED <<cacheVars, rbacVars, bootVars>>

\* clear()
CallClear ==
    /\ limits' = << >>
    /\ rlResult' = [op |-> "clear", identifier |-> "", value |-> 0]
    /\ admitted' = [i \in Identifiers |-> <<>>]
    /\ UNCHANGED <<now, config>>
    /\ UNCHANGED jqVars
    /\ UNCHANGED <<cacheVars, rbacVars, bootVars>>

RLNext ==
    \/ AdvanceClock
    \/ \E identifier \in Identifiers : CallIsAllowed(identifier)
    \/ \E identifier \in Identifiers : CallGetRemainingRequests(identifier)
    \/ \E identifier \in Identifiers : CallReset(identifier)
    \/ CallClear


(***************************************************************************)
(* JobQueue                                                                *)
(*                                                                         *)
(* JavaScript runs one callback at a time: every action below is the code  *)
(* run between two suspension points (an await or the return to the event  *)
(* loop).  An activation of process() that is suspended is a record of     *)
(* loops: its pc names the await it is suspended at,                       *)
(*   "handler" : inside processJob, at `await handler(job.payload)`        *)
(*   "delay"   : inside processJob, at `await this.delay(delay)`           *)
(*   "resume"  : processJob has returned; process() is at the              *)
(*               `await this.processJob(job)` whose promise is settled     *)
(***************************************************************************)
\* job types passed to enqueue and registerHandler
Types == {"email", "report"}

\* the handler functions callers register
HandlerIds == {"h1"}

\* what a handler invocation may reject with: Error objects with a message,
\* an Error with an empty message, and a value that is no Error
Throwables == {[isError |-> TRUE,  message |-> "boom"],
               [isError |-> TRUE,  message |-> ""],
               [isError |-> FALSE, message |-> "thrown string"]}

\* the maxAttempts arguments passed to enqueue (the parameter is unchecked)
AttemptChoices == 0..MaxMaxAttempts

\* the factor of the backoff delay, in milliseconds
BackoffBaseMs == 1000

\* the Job object built by enqueue; processedAt and error start undefined
\* (error is <<>> when undefined and <<message>> when set)
NewJob(type, maxAttempts) ==
    [type |-> type, attempts |-> 0, maxAttempts |-> maxAttempts,
     processedAt |-> FALSE, error |-> <<>>]

\* a suspended activation of process()
Loop(pc, job, handler, delayMs) ==
    [pc |-> pc, job |-> job, handler |-> handler,
     delayMs |-> delayMs, elapsed |-> 0]

\* the queue object as one value
JQ == [jobs |-> jobs, queue |-> queue, deadLetterQueue |-> deadLetterQueue,
       handlers |-> handlers, processing |-> processing, loops |-> loops,
       calls |-> calls, appendLog |-> appendLog, dequeueLog |-> dequeueLog,
       deathLog |-> deathLog, returned |-> returned, escaped |-> escaped,
       successLog |-> successLog]

\* the queue object becomes s
Becomes(s) ==
    /\ jobs' = s.jobs
    /\ queue' = s.queue
    /\ deadLetterQueue' = s.deadLetterQueue
    /\ handlers' = s.handlers
    /\ processing' = s.processing
    /\ loops' = s.loops
    /\ calls' = s.calls
    /\ appendLog' = s.appendLog
    /\ dequeueLog' = s.dequeueLog
    /\ deathLog' = s.deathLog
    /\ returned' = s.returned
    /\ escaped' = s.escaped
    /\ successLog' = s.successLog
    /\ snapshots' = snapshots

\* s without its l-th activation (the activation returned)
RemoveAt(seq, l) ==
    [i \in 1..(Len(seq) - 1) |-> IF i < l THEN seq[i] ELSE seq[i + 1]]

\* variant: the job is put at the head (unshift) instead of the tail
PushFront(q, j) == <<j>> \o q

\* this.queue.push(job)
Push(q, j) == Append(q, j)

\* variant: the job is taken from the tail (pop) instead of the head
ShiftLast(q) == [job |-> q[Len(q)], rest |-> SubSeq(q, 1, Len(q) - 1)]

\* this.queue.shift(): the job taken and the queue left
Shift(q) == [job |-> Head(q), rest |-> Tail(q)]

\* variant: > in place of >=
ExhaustedOffByOne(job) == job.attempts > job.maxAttempts

\* job.attempts >= job.maxAttempts
Exhausted(job) == job.attempts >= job.maxAttempts

\* variant: the exponent is the attempt count before the increment
BackoffDelayPrev(attempts) == (2 ^ (attempts - 1)) * BackoffBaseMs

\* Math.pow(2, job.attempts) * 1000
BackoffDelay(attempts) == (2 ^ attempts) * BackoffBaseMs

\* variant: the thrown message is dropped
ErrorMessageDropped(thrown) == "Unknown error"

\* error instanceof Error ? error.message : 'Unknown error'
ErrorMessage(thrown) ==
    IF thrown.isError THEN thrown.message ELSE "Unknown error"

\* moveToDeadLetter(job, error); cause is what the handler threw, for the
\* history
moveToDeadLetter(s, j, error, cause) ==
    [s EXCEPT !.jobs[j].error = <<error>>,
              !.deadLetterQueue = Append(@, j),
              !.deathLog = Append(@, [job |-> j, thrown |-> cause])]

\* variant: job.attempts++ is done before the handler lookup
processJobCountsFirst(s, l, j) ==
    LET type == s.jobs[j].type
        s1   == [s EXCEPT !.jobs[j].attempts = @ + 1]
    IN  IF type \notin DOMAIN s.handlers
        THEN [moveToDeadLetter(s1, j, "No handler registered", <<>>)
                EXCEPT !.loops[l] = Loop("resume", j, "", 0)]
        ELSE [s1 EXCEPT !.calls[j] = @ + 1,
                        !.loops[l] = Loop("handler", j, s.handlers[type], 0)]

\* processJob(job) from its call to its first await (or its return), run by
\* activation l
processJob(s, l, j) ==
    LET type == s.jobs[j].type
    IN  IF type \notin DOMAIN s.handlers
        THEN [moveToDeadLetter(s, j, "No handler registered", <<>>)
                EXCEPT !.loops[l] = Loop("resume", j, "", 0)]
        ELSE [s EXCEPT !.jobs[j].attempts = @ + 1,
                       !.calls[j] = @ + 1,
                       !.loops[l] = Loop("handler", j, s.handlers[type], 0)]

\* variant: this.processing = false is missing after the loop
processLoopKeepsFlag(s, l) ==
    IF Len(s.queue) > 0
    THEN LET sh == Shift(s.queue)
         IN  processJob([s EXCEPT !.queue = sh.rest,
                                  !.dequeueLog = Append(@, sh.job)],
                        l, sh.job)
    ELSE [s EXCEPT !.loops = RemoveAt(@, l)]

\* the while loop of process(), from its test to the next await or the return
processLoop(s, l) ==
    IF Len(s.queue) > 0
    THEN LET sh == Shift(s.queue)
         IN  processJob([s EXCEPT !.queue = sh.rest,
                                  !.dequeueLog = Append(@, sh.job)],
                        l, sh.job)
    ELSE [s EXCEPT !.processing = FALSE,
                   !.loops = RemoveAt(@, l)]

\* variant: this.processing = true is missing
processNoFlag(s) ==
    IF s.processing \/ Len(s.queue) = 0
    THEN s
    ELSE processLoop([s EXCEPT !.loops = Append(@, Loop("resume", 0, "", 0))],
                     Len(s.loops) + 1)

\* variant: process() awaits before it enters the loop, the first job is
\* dequeued after enqueue has returned
processDeferred(s) ==
    IF s.processing \/ Len(s.queue) = 0
    THEN s
    ELSE [s EXCEPT !.processing = TRUE,
                   !.loops = Append(@, Loop("resume", 0, "", 0))]

\* process(), from its call to its first await (or its return)
process(s) ==
    IF s.processing \/ Len(s.queue) = 0
    THEN s
    ELSE processLoop([s EXCEPT !.processing = TRUE,
                               !.loops = Append(@, Loop("resume", 0, "", 0))],
                     Len(s.loops) + 1)

\* variant: the test of this.processing is inverted, process() is called
\* only while a loop is running
enqueueInverted(s, type, maxAttempts) ==
    LET j  == Len(s.jobs) + 1
        s1 == [s EXCEPT !.jobs = Append(@, NewJob(type, maxAttempts)),
                        !.calls = Append(@, 0),
                        !.queue = Push(@, j),
                        !.appendLog = Append(@, j)]
        s2 == IF s1.processing THEN process(s1) ELSE s1
    IN  [s2 EXCEPT !.returned = Append(@, j)]

\* enqueue(type, payload, maxAttempts), from its call to its return; the
\* promise process() returns is discarded (void), `return job.id` follows
enqueue(s, type, maxAttempts) ==
    LET j  == Len(s.jobs) + 1
        s1 == [s EXCEPT !.jobs = Append(@, NewJob(type, maxAttempts)),
                        !.calls = Append(@, 0),
                        !.queue = Push(@, j),
                        !.appendLog = Append(@, j)]
        s2 == IF ~s1.processing THEN process(s1) ELSE s1
    IN  [s2 EXCEPT !.returned = Append(@, j)]

\* variant: the first failure is dead-lettered, whatever maxAttempts is
onRejectNoRetry(s, l, thrown) ==
    [moveToDeadLetter(s, s.loops[l].job, ErrorMessage(thrown), <<thrown>>)
       EXCEPT !.loops[l] = Loop("resume", s.loops[l].job, "", 0)]

\* variant: the else is missing, an exhausted job is dead-lettered and then
\* also waits and is re-queued
onRejectFallThrough(s, l, thrown) ==
    LET j  == s.loops[l].job
        s1 == IF Exhausted(s.jobs[j])
              THEN moveToDeadLetter(s, j, ErrorMessage(thrown), <<thrown>>)
              ELSE s
    IN  [s1 EXCEPT !.loops[l] =
            Loop("delay", j, "", BackoffDelay(s.jobs[j].attempts))]

\* the catch block of processJob, from the rejection to the next await or
\* the return
onReject(s, l, thrown) ==
    LET j == s.loops[l].job
    IN  IF Exhausted(s.jobs[j])
        THEN [moveToDeadLetter(s, j, ErrorMessage(thrown), <<thrown>>)
                EXCEPT !.loops[l] = Loop("resume", j, "", 0)]
        ELSE [s EXCEPT !.loops[l] =
                 Loop("delay", j, "", BackoffDelay(s.jobs[j].attempts))]

\* variant: the handler is called outside the try block; what it throws
\* rejects the promise of processJob and, through the await in process(), the
\* promise of process(), which nobody handles: the activation is gone and
\* this.processing stays set
onHandlerThrowUncaught(s, l, thrown) ==
    [s EXCEPT !.loops = RemoveAt(@, l),
              !.escaped = Append(@, thrown)]

\* `try { await handler(job.payload) ... } catch (error) { ... }`: whatever
\* the handler throws, in the call or through its promise, enters the catch
\* block
onHandlerThrow(s, l, thrown) == onReject(s, l, thrown)

\* variant: the job is stamped and then pushed on the queue again
onFulfillRequeues(s, l) ==
    [s EXCEPT !.jobs[s.loops[l].job].processedAt = TRUE,
              !.successLog = Append(@, s.loops[l].job),
              !.queue = Push(@, s.loops[l].job),
              !.appendLog = Append(@, s.loops[l].job),
              !.loops[l] = Loop("resume", s.loops[l].job, "", 0)]

\* processJob after `await handler(job.payload)` fulfilled
onFulfill(s, l) ==
    [s EXCEPT !.jobs[s.loops[l].job].processedAt = TRUE,
              !.successLog = Append(@, s.loops[l].job),
              !.loops[l] = Loop("resume", s.loops[l].job, "", 0)]

\* processJob after `await this.delay(delay)`: re-queue for retry, return
onDelayDone(s, l) ==
    LET j == s.loops[l].job
    IN  [s EXCEPT !.queue = Push(@, j),
                  !.appendLog = Append(@, j),
                  !.loops[l] = Loop("resume", j, "", 0)]

\* new JobQueue()
JQInit ==
    /\ jobs = <<>>
    /\ queue = <<>>
    /\ deadLetterQueue = <<>>
    /\ handlers = << >>
    /\ processing = FALSE
    /\ loops = <<>>
    /\ calls = <<>>
    /\ appendLog = <<>>
    /\ dequeueLog = <<>>
    /\ deathLog = <<>>
    /\ returned = <<>>
    /\ escaped = <<>>
    /\ successLog = <<>>
    /\ snapshots = <<>>

RegisterHandler(type, h) ==
    /\ handlers' = MapSet(handlers, type, h)
    /\ UNCHANGED <<jobs, queue, deadLetterQueue, processing, loops,
                   calls, appendLog, dequeueLog, deathLog,
                   returned, escaped, successLog, snapshots>>
    /\ UNCHANGED rlVars
    /\ UNCHANGED <<cacheVars, rbacVars, bootVars>>

Enqueue(type, maxAttempts) ==
    /\ Len(jobs) < MaxJobs
    /\ Becomes(enqueue(JQ, type, maxAttempts))
    /\ UNCHANGED rlVars
    /\ UNCHANGED <<cacheVars, rbacVars, bootVars>>

\* the promise of the handler invocation of activation l fulfils
HandlerResolves(l) ==
    /\ loops[l].pc = "handler"
    /\ Becomes(onFulfill(JQ, l))
    /\ UNCHANGED rlVars
    /\ UNCHANGED <<cacheVars, rbacVars, bootVars>>

\* the handler invocation of activation l throws or its promise rejects
HandlerRejects(l, thrown) ==
    /\ loops[l].pc = "handler"
    /\ Becomes(onHandlerThrow(JQ, l, thrown))
    /\ UNCHANGED rlVars
    /\ UNCHANGED <<cacheVars, rbacVars, bootVars>>

\* the step in which the model lets time pass: the shortest backoff delay
TickMs == BackoffDelay(1)

\* time passes while a backoff timer is pending
Tick ==
    /\ \E l \in DOMAIN loops :
          loops[l].pc = "delay" /\ loops[l].elapsed < loops[l].delayMs
    /\ loops' = [l \in DOMAIN loops |->
                   IF loops[l].pc = "delay"
                      /\ loops[l].elapsed + TickMs <= loops[l].delayMs
                   THEN [loops[l] EXCEPT !.elapsed = @ + TickMs]
                   ELSE [loops[l] EXCEPT !.elapsed = loops[l].delayMs]]
    /\ UNCHANGED <<jobs, queue, deadLetterQueue, handlers, processing,
                   calls, appendLog, dequeueLog, deathLog,
                   returned, escaped, successLog, snapshots>>
    /\ UNCHANGED rlVars
    /\ UNCHANGED <<cacheVars, rbacVars, bootVars>>

\* the setTimeout callback of delay(ms) runs once ms have elapsed
TimerFires(l) ==
    /\ loops[l].pc = "delay"
    /\ loops[l].elapsed >= loops[l].delayMs
    /\ Becomes(onDelayDone(JQ, l))
    /\ UNCHANGED rlVars
    /\ UNCHANGED <<cacheVars, rbacVars, bootVars>>

\* process() continues after `await this.processJob(job)`
LoopResumes(l) ==
    /\ loops[l].pc = "resume"
    /\ Becomes(processLoop(JQ, l))
    /\ UNCHANGED rlVars
    /\ UNCHANGED <<cacheVars, rbacVars, bootVars>>

\* clearDeadLetterQueue()
ClearDeadLetterQueue ==
    /\ deadLetterQueue' = <<>>
    /\ UNCHANGED <<jobs, queue, handlers, processing, loops,
                   calls, appendLog, dequeueLog, deathLog,
                   returned, escaped, successLog, snapshots>>
    /\ UNCHANGED rlVars
    /\ UNCHANGED <<cacheVars, rbacVars, bootVars>>

JQNext ==
    \/ \E type \in Types, h \in HandlerIds : RegisterHandler(type, h)
    \/ \E type \in Types, maxAttempts \in AttemptChoices :
          Enqueue(type, maxAttempts)
    \/ \E l \in DOMAIN loops : HandlerResolves(l)
    \/ \E l \in DOMAIN loops, thrown \in Throwables : HandlerRejects(l, thrown)
    \/ Tick
    \/ \E l \in DOMAIN loops : TimerFires(l)
    \/ \E l \in DOMAIN loops : LoopResumes(l)
    \/ ClearDeadLetterQueue

\* getDeadLetterQueue(): [...this.deadLetterQueue], a new array holding the
\* references to the same Job objects
getDeadLetterQueue(s) == s.deadLetterQueue

GetDeadLetterQueue ==
    /\ snapshots' = <<getDeadLetterQueue(JQ)>>
    /\ UNCHANGED <<jobs, queue, deadLetterQueue, handlers, processing, loops,
                   calls, appendLog, dequeueLog, deathLog,
                   returned, escaped, successLog>>
    /\ UNCHANGED rlVars
    /\ UNCHANGED <<cacheVars, rbacVars, bootVars>>

\* the caller changes the array it was handed (here: shift())
CallerEditsArray ==
    /\ snapshots # <<>>
    /\ Len(snapshots[1]) > 0
    /\ snapshots' = <<Tail(snapshots[1])>>
    /\ UNCHANGED <<jobs, queue, deadLetterQueue, handlers, processing, loops,
                   calls, appendLog, dequeueLog, deathLog,
                   returned, escaped, successLog>>
    /\ UNCHANGED rlVars
    /\ UNCHANGED <<cacheVars, rbacVars, bootVars>>

\* the caller assigns to a field of a Job object of the array it was handed
CallerEditsJob(i) ==
    /\ snapshots # <<>>
    /\ i \in DOMAIN snapshots[1]
    /\ jobs' = [jobs EXCEPT ![snapshots[1][i]].error = <<"edited by the caller">>]
    /\ UNCHANGED <<queue, deadLetterQueue, handlers, processing, loops,
                   calls, appendLog, dequeueLog, deathLog,
                   returned, escaped, successLog, snapshots>>
    /\ UNCHANGED rlVars
    /\ UNCHANGED <<cacheVars, rbacVars, bootVars>>

\* the handler functions of a caller that replaces handlers
ReplacingHandlerIds == {"h1", "h2"}

\* the queue with a caller that registers and replaces handlers
JQReplaceNext ==
    \/ \E type \in Types, h \in ReplacingHandlerIds : RegisterHandler(type, h)
    \/ \E type \in Types, maxAttempts \in AttemptChoices :
          Enqueue(type, maxAttempts)
    \/ \E l \in DOMAIN loops : HandlerResolves(l)
    \/ \E l \in DOMAIN loops, thrown \in Throwables : HandlerRejects(l, thrown)
    \/ Tick
    \/ \E l \in DOMAIN loops : TimerFires(l)
    \/ \E l \in DOMAIN loops : LoopResumes(l)
    \/ ClearDeadLetterQueue

\* the queue together with a caller of getDeadLetterQueue
JQSnapshotNext ==
    \/ \E type \in Types, h \in HandlerIds : RegisterHandler(type, h)
    \/ \E type \in Types, maxAttempts \in AttemptChoices :
          Enqueue(type, maxAttempts)
    \/ \E l \in DOMAIN loops : HandlerResolves(l)
    \/ \E l \in DOMAIN loops, thrown \in Throwables : HandlerRejects(l, thrown)
    \/ Tick
    \/ \E l \in DOMAIN loops : TimerFires(l)
    \/ \E l \in DOMAIN loops : LoopResumes(l)
    \/ ClearDeadLetterQueue
    \/ GetDeadLetterQueue
    \/ CallerEditsArray
    \/ \E i \in 1..MaxJobs : CallerEditsJob(i)

(***************************************************************************)
(* InMemoryCache                                                           *)
(*                                                                         *)
(* store is a JavaScript Map: it iterates its keys in the order in which   *)
(* they were inserted, Map.set on a key that is present keeps the key's    *)
(* place, Map.delete removes the key.  A value a call returns is <<v>>,    *)
(* null is <<>>.                                                           *)
(***************************************************************************)
\* the keys handed to the cache; the empty string is a string
CacheKeys == {"", "a", "b"}

\* the values stored
CacheValues == {"v1", "v2"}

\* the ttl arguments passed to set, in milliseconds
CacheTtls == {0, 1}

\* the maxSize of a cache constructed without the option, or with maxSize: 0
DefaultMaxSize == 1000

\* this.maxSize = options.maxSize || 1000
CacheConstructor(optMaxSize) ==
    IF optMaxSize = 0 THEN DefaultMaxSize ELSE optMaxSize

\* the keys of the Map, in iteration order
StoreKeys(st) == [i \in DOMAIN st |-> st[i].key]

\* Map.has(key)
StoreHas(st, key) == \E i \in DOMAIN st : st[i].key = key

\* the entry Map.get(key) returns, for a key that is present
StoreGet(st, key) == st[CHOOSE i \in DOMAIN st : st[i].key = key]

\* Map.delete(key)
StoreDelete(st, key) == SelectSeq(st, LAMBDA e : e.key # key)

\* Map.set(key, entry): a key that is present keeps its place, a new key goes
\* to the end
StoreSet(st, key, entry) ==
    IF StoreHas(st, key)
    THEN [i \in DOMAIN st |-> IF st[i].key = key THEN entry ELSE st[i]]
    ELSE Append(st, entry)

\* this.store.keys().next().value: <<>> is undefined
FirstKey(st) == IF Len(st) = 0 THEN <<>> ELSE <<st[1].key>>

\* the test `if (firstKey)`: undefined and the empty string are falsy
Truthy(firstKey) == firstKey # <<>> /\ firstKey[1] # ""

\* the "Evict oldest if at capacity" block of set
EvictIfFull(st, max) ==
    IF Len(st) >= max /\ Truthy(FirstKey(st))
    THEN StoreDelete(st, FirstKey(st)[1])
    ELSE st

\* set(key, value, ttl) at clock time t
cacheSet(st, max, key, value, ttl, t) ==
    StoreSet(EvictIfFull(st, max), key,
             [key |-> key, value |-> value, expiresAt |-> t + ttl])

\* variant: >= in place of >, an entry is gone at its deadline
cacheGetEarly(st, key, t) ==
    IF ~StoreHas(st, key)
    THEN [result |-> <<>>, store |-> st]
    ELSE IF t >= StoreGet(st, key).expiresAt
         THEN [result |-> <<>>, store |-> StoreDelete(st, key)]
         ELSE [result |-> <<StoreGet(st, key).value>>, store |-> st]

\* get(key) at clock time t: the result and the store left
cacheGet(st, key, t) ==
    IF ~StoreHas(st, key)
    THEN [result |-> <<>>, store |-> st]
    ELSE IF t > StoreGet(st, key).expiresAt
         THEN [result |-> <<>>, store |-> StoreDelete(st, key)]
         ELSE [result |-> <<StoreGet(st, key).value>>, store |-> st]

\* has(key) at clock time t: this.get(key) !== null
cacheHas(st, key, t) ==
    [result |-> cacheGet(st, key, t).result # <<>>,
     store  |-> cacheGet(st, key, t).store]

\* variant: the loop stops after the first entry it deletes
cacheCleanupFirstOnly(st, t) ==
    LET expired == {i \in DOMAIN st : t > st[i].expiresAt}
    IN  IF expired = {}
        THEN st
        ELSE LET first == CHOOSE i \in expired : \A k \in expired : i <= k
             IN  [i \in 1..(Len(st) - 1) |->
                    IF i < first THEN st[i] ELSE st[i + 1]]

\* cleanup() at clock time t
cacheCleanup(st, t) == SelectSeq(st, LAMBDA e : ~(t > e.expiresAt))

\* size()
cacheSize(st) == Len(st)

\* m without the keys of K
MapWithout(m, K) == [x \in (DOMAIN m) \ K |-> m[x]]

\* the keys of st
KeySet(st) == {st[i].key : i \in DOMAIN st}

\* new InMemoryCache(options)
CacheInit ==
    /\ maxSize \in {CacheConstructor(n) : n \in 0..MaxCacheSize}
    /\ store = <<>>
    /\ cacheResult = [op |-> "none", key |-> "", value |-> <<>>]
    /\ written = << >>
    /\ cleanRun = <<>>

CacheSet(key, value, ttl) ==
    LET st == cacheSet(store, maxSize, key, value, ttl, now)
    IN  /\ store' = st
        /\ cacheResult' = [op |-> "set", key |-> key, value |-> <<>>]
        /\ written' = MapSet(MapWithout(written, KeySet(store) \ KeySet(st)),
                             key, [value |-> value, deadline |-> now + ttl])
        /\ cleanRun' = <<>>
        /\ UNCHANGED <<maxSize>>
        /\ UNCHANGED <<rlVars, jqVars, rbacVars, bootVars>>

CacheGet(key) ==
    LET r == cacheGet(store, key, now)
    IN  /\ store' = r.store
        /\ cacheResult' = [op |-> "get", key |-> key, value |-> r.result]
        /\ cleanRun' = <<>>
        /\ UNCHANGED <<maxSize, written>>
        /\ UNCHANGED <<rlVars, jqVars, rbacVars, bootVars>>

CacheHas(key) ==
    LET r == cacheHas(store, key, now)
    IN  /\ store' = r.store
        /\ cacheResult' = [op |-> "has", key |-> key,
                           value |-> IF r.result THEN <<"true">> ELSE <<>>]
        /\ cleanRun' = <<>>
        /\ UNCHANGED <<maxSize, written>>
        /\ UNCHANGED <<rlVars, jqVars, rbacVars, bootVars>>

\* delete(key)
CacheDelete(key) ==
    /\ store' = StoreDelete(store, key)
    /\ cacheResult' = [op |-> "delete", key |-> key, value |-> <<>>]
    /\ written' = MapWithout(written, {key})
    /\ cleanRun' = <<>>
    /\ UNCHANGED <<maxSize>>
    /\ UNCHANGED <<rlVars, jqVars, rbacVars, bootVars>>

\* clear()
CacheClear ==
    /\ store' = <<>>
    /\ cacheResult' = [op |-> "clear", key |-> "", value |-> <<>>]
    /\ written' = << >>
    /\ cleanRun' = <<>>
    /\ UNCHANGED <<maxSize>>
    /\ UNCHANGED <<rlVars, jqVars, rbacVars, bootVars>>

\* cleanup(), called directly or by the interval timer
CacheCleanup ==
    /\ store' = cacheCleanup(store, now)
    /\ cacheResult' = [op |-> "cleanup", key |-> "", value |-> <<>>]
    /\ cleanRun' = IF cleanRun = <<>>
                   THEN <<now>>
                   ELSE <<cleanRun[Len(cleanRun)], now>>
    /\ UNCHANGED <<maxSize, written>>
    /\ UNCHANGED <<rlVars, jqVars, rbacVars, bootVars>>

CacheNext ==
    \/ AdvanceClock
    \/ \E key \in CacheKeys, value \in CacheValues, ttl \in CacheTtls :
          CacheSet(key, value, ttl)
    \/ \E key \in CacheKeys : CacheGet(key)
    \/ \E key \in CacheKeys : CacheHas(key)
    \/ \E key \in CacheKeys : CacheDelete(key)
    \/ CacheClear
    \/ CacheCleanup

(***************************************************************************)
(* RBACService (src/packages/auth/src/rbac.ts)                             *)
(*                                                                         *)
(* hasPermission is a pure function of its arguments; the model keeps the  *)
(* last call and what it returned.                                         *)
(***************************************************************************)
\* the role names a user may hold; "auditor" is no key of the default map
RoleNames == {"admin", "user", "guest", "auditor"}

\* the resources and actions asked for
Resources == {"*", "profile", "settings", "public", "users"}
ActionNames == {"*", "read", "update", "delete"}

\* the userRoles arrays passed: every array of at most MaxUserRoles role names
UserRoleLists ==
    UNION {[1..n -> RoleNames] : n \in 0..MaxUserRoles}

\* createDefaultRoles(): the Permission[] of every role of the map
createDefaultRoles ==
    [role \in {"admin", "user", "guest"} |->
        CASE role = "admin" -> <<[resource |-> "*", action |-> "*"]>>
          [] role = "user"  -> <<[resource |-> "profile",  action |-> "read"],
                                 [resource |-> "profile",  action |-> "update"],
                                 [resource |-> "settings", action |-> "read"],
                                 [resource |-> "settings", action |-> "update"]>>
          [] role = "guest" -> <<[resource |-> "public",   action |-> "read"]>>]

\* permissions.some((p) => p.resource === resource && p.action === action)
SomeMatch(permissions, resource, action) ==
    \E i \in DOMAIN permissions :
        permissions[i].resource = resource /\ permissions[i].action = action

\* hasPermission(userRoles, rolePermissions, resource, action)
hasPermission(userRoles, rolePermissions, resource, action) ==
    IF Len(userRoles) = 0
    THEN FALSE
    ELSE \E i \in DOMAIN userRoles :
            /\ userRoles[i] \in DOMAIN rolePermissions
            /\ SomeMatch(rolePermissions[userRoles[i]], resource, action)

\* requirePermission(...): whether it throws
requirePermission(userRoles, rolePermissions, resource, action) ==
    ~hasPermission(userRoles, rolePermissions, resource, action)

\* no call was made yet
RBACInit ==
    /\ rbacCall = [op |-> "none", userRoles |-> <<>>,
                   resource |-> "", action |-> ""]
    /\ rbacResult = [granted |-> FALSE, threw |-> FALSE]

CallHasPermission(userRoles, resource, action) ==
    /\ rbacCall' = [op |-> "hasPermission", userRoles |-> userRoles,
                    resource |-> resource, action |-> action]
    /\ rbacResult' = [granted |-> hasPermission(userRoles, createDefaultRoles,
                                                resource, action),
                      threw |-> FALSE]
    /\ UNCHANGED <<rlVars, jqVars, cacheVars, bootVars>>

CallRequirePermission(userRoles, resource, action) ==
    /\ rbacCall' = [op |-> "requirePermission", userRoles |-> userRoles,
                    resource |-> resource, action |-> action]
    /\ rbacResult' = [granted |-> hasPermission(userRoles, createDefaultRoles,
                                                resource, action),
                      threw |-> requirePermission(userRoles, createDefaultRoles,
                                                  resource, action)]
    /\ UNCHANGED <<rlVars, jqVars, cacheVars, bootVars>>

RBACNext ==
    \/ \E userRoles \in UserRoleLists, resource \in Resources,
          action \in ActionNames :
          CallHasPermission(userRoles, resource, action)
    \/ \E userRoles \in UserRoleLists, resource \in Resources,
          action \in ActionNames :
          CallRequirePermission(userRoles, resource, action)

(***************************************************************************)
(* RuntimeBootstrap (src/unnamed/part_004, lines 19-231)                   *)
(*                                                                         *)
(* start() awaits its steps one after the other; bootPc names the step     *)
(* whose promise it is suspended at.  An action is the settling of that    *)
(* promise together with the code start() runs up to its next await.       *)
(***************************************************************************)
\* the steps of start(), in the order of its source text
BootSteps ==
    <<"validateEnvironment", "connectDatabase", "runDatabaseMigrations",
      "performHealthChecks", "initializeServices", "setupGracefulShutdown">>

\* the BootstrapConfig objects passed to start()
BootConfigs ==
    [runMigrations : BOOLEAN, requireHealthChecks : BOOLEAN,
     gracefulShutdown : BOOLEAN]

\* what process.env holds: all required variables with a JWT_SECRET of 32 or
\* more characters, a required variable missing, a JWT_SECRET too short
BootEnvs == {"valid", "missing", "shortSecret"}

\* the `if (config....)` guarding a step of start()
StepEnabled(cfg, step) ==
    CASE step = "runDatabaseMigrations" -> cfg.runMigrations
      [] step = "performHealthChecks"   -> cfg.requireHealthChecks
      [] step = "setupGracefulShutdown" -> cfg.gracefulShutdown
      [] OTHER                          -> TRUE

\* how the promise of a step can settle: "ok" or the message of the error it
\* rejects with
StepOutcomes(step, env) ==
    CASE step = "validateEnvironment" ->
            IF env = "missing"
            THEN {"Missing required environment variables"}
            ELSE IF env = "shortSecret"
                 THEN {"JWT_SECRET must be at least 32 characters"}
                 ELSE {"ok"}
      [] step = "connectDatabase" -> {"ok", "db.connect rejected"}
      [] step = "runDatabaseMigrations" -> {"ok", "prisma migrate deploy failed"}
      [] step = "performHealthChecks" ->
            {"ok", "Database health check failed", "db.healthCheck rejected"}
      [] OTHER -> {"ok"}

\* the position of a step in BootSteps
StepIndex(step) == CHOOSE i \in DOMAIN BootSteps : BootSteps[i] = step

\* the bootstrap object and the run of start() as one value
Boot == [config |-> bootConfig, pc |-> bootPc, log |-> bootLog,
         result |-> bootResult, completed |-> bootCompleted,
         failure |-> bootFailure, handlers |-> shutdownHandlers]

\* the bootstrap becomes b
BootBecomes(b) ==
    /\ bootConfig' = b.config
    /\ bootPc' = b.pc
    /\ bootLog' = b.log
    /\ bootResult' = b.result
    /\ bootCompleted' = b.completed
    /\ bootFailure' = b.failure
    /\ shutdownHandlers' = b.handlers

\* start() from the statement after step number i to its next await, or to
\* its return: the steps that are disabled are skipped, setupGracefulShutdown
\* is synchronous and followed by the report of completion
RECURSIVE startFrom(_, _)
startFrom(b, i) ==
    IF i > Len(BootSteps)
    THEN [b EXCEPT !.completed = TRUE,
                   !.pc = "done",
                   !.result = [state |-> "resolved", error |-> ""]]
    ELSE IF ~StepEnabled(b.config, BootSteps[i])
         THEN startFrom(b, i + 1)
         ELSE IF BootSteps[i] = "setupGracefulShutdown"
              THEN startFrom([b EXCEPT !.log = Append(@, BootSteps[i]),
                                       !.handlers = @ + 1],
                             i + 1)
              ELSE [b EXCEPT !.log = Append(@, BootSteps[i]),
                             !.pc = BootSteps[i]]

\* variant: the error of the step does not reach the catch block of start(),
\* which goes on with the next step
startCatchSwallows(b, error) == startFrom(b, StepIndex(b.pc) + 1)

\* the awaited step rejected: the catch block of start() logs and rethrows
startCatch(b, error) ==
    [b EXCEPT !.pc = "failed",
              !.result = [state |-> "rejected", error |-> error]]

\* start() resumes after the promise of the awaited step settled
startResume(b, outcome) ==
    IF outcome = "ok"
    THEN startFrom(b, StepIndex(b.pc) + 1)
    ELSE startCatch([b EXCEPT !.failure = <<[step |-> b.pc, error |-> outcome]>>],
                    outcome)

\* new RuntimeBootstrap(), start() not yet called
BootInit ==
    /\ bootEnv \in BootEnvs
    /\ bootConfig = [runMigrations |-> TRUE, requireHealthChecks |-> TRUE,
                     gracefulShutdown |-> TRUE]
    /\ bootPc = "idle"
    /\ bootLog = <<>>
    /\ bootResult = [state |-> "none", error |-> ""]
    /\ bootCompleted = FALSE
    /\ bootFailure = <<>>
    /\ shutdownHandlers = 0
    /\ isShuttingDown = FALSE
    /\ shutdownPc = "none"
    /\ exitCode = -1

\* start(cfg) is called: it runs up to `await this.validateEnvironment()`
BootStart(cfg) ==
    /\ bootPc = "idle"
    /\ exitCode = -1
    /\ BootBecomes(startFrom([Boot EXCEPT !.config = cfg,
                                          !.result = [state |-> "pending",
                                                      error |-> ""]],
                             1))
    /\ UNCHANGED <<bootEnv, isShuttingDown, shutdownPc, exitCode>>
    /\ UNCHANGED <<rlVars, jqVars, cacheVars, rbacVars>>

\* the promise of the awaited step settles and start() resumes
StepSettles(outcome) ==
    /\ bootPc \notin {"idle", "done", "failed"}
    /\ exitCode = -1
    /\ outcome \in StepOutcomes(bootPc, bootEnv)
    /\ BootBecomes(startResume(Boot, outcome))
    /\ UNCHANGED <<bootEnv, isShuttingDown, shutdownPc, exitCode>>
    /\ UNCHANGED <<rlVars, jqVars, cacheVars, rbacVars>>

\* SIGTERM or SIGINT arrives: every registered handler calls shutdown(signal),
\* which runs up to `await db.disconnect()` unless a shutdown is under way
Signal ==
    /\ shutdownHandlers > 0
    /\ exitCode = -1
    /\ IF isShuttingDown
       THEN UNCHANGED <<isShuttingDown, shutdownPc>>
       ELSE /\ isShuttingDown' = TRUE
            /\ shutdownPc' = "disconnecting"
    /\ UNCHANGED <<bootEnv, bootConfig, bootPc, bootLog, bootResult,
                   bootCompleted, bootFailure, shutdownHandlers, exitCode>>
    /\ UNCHANGED <<rlVars, jqVars, cacheVars, rbacVars>>

\* db.disconnect() settles: process.exit(0), or process.exit(1) when it
\* rejected
DisconnectSettles(ok) ==
    /\ shutdownPc = "disconnecting"
    /\ exitCode = -1
    /\ exitCode' = IF ok THEN 0 ELSE 1
    /\ shutdownPc' = "exited"
    /\ UNCHANGED <<bootEnv, bootConfig, bootPc, bootLog, bootResult,
                   bootCompleted, bootFailure, shutdownHandlers,
                   isShuttingDown>>
    /\ UNCHANGED <<rlVars, jqVars, cacheVars, rbacVars>>

BootNext ==
    \/ \E cfg \in BootConfigs : BootStart(cfg)
    \/ \E outcome \in {"ok", "Missing required environment variables",
                       "JWT_SECRET must be at least 32 characters",
                       "db.connect rejected", "prisma migrate deploy failed",
                       "Database health check failed",
                       "db.healthCheck rejected"} : StepSettles(outcome)
    \/ Signal
    \/ \E ok \in BOOLEAN : DisconnectSettles(ok)

(***************************************************************************)
(* Specifications.  The components share no state, so each is also checked *)
(* on its own, the other one staying as constructed.                       *)
(***************************************************************************)
\* a rate limiter that was constructed and is never called
RLIdle ==
    /\ now = 0
    /\ config = [windowMs |-> 1, maxRequests |-> 1]
    /\ limits = << >>
    /\ rlResult = [op |-> "none", identifier |-> "", value |-> 0]
    /\ admitted = [i \in Identifiers |-> <<>>]

\* the global instance `cache`, never used
CacheIdle ==
    /\ maxSize = 1000
    /\ store = <<>>
    /\ cacheResult = [op |-> "none", key |-> "", value |-> <<>>]
    /\ written = << >>
    /\ cleanRun = <<>>

\* a bootstrap whose start() is never called
BootIdle == BootInit /\ bootEnv = "valid"

Init == RLInit /\ JQInit /\ CacheInit /\ RBACInit /\ BootInit

Next == RLNext \/ JQSnapshotNext \/ CacheNext \/ RBACNext \/ BootNext

Spec == Init /\ [][Next]_vars

\* the rate limiter alone
RLSpecInit == RLInit /\ JQInit /\ CacheIdle /\ RBACInit /\ BootIdle

SpecRateLimiter == RLSpecInit /\ [][RLNext]_vars

\* the job queue alone
JQSpecInit == RLIdle /\ JQInit /\ CacheIdle /\ RBACInit /\ BootIdle

SpecJobQueue == JQSpecInit /\ [][JQNext]_vars

\* the job queue and a caller that takes and edits dead-letter snapshots
SpecJobQueueSnapshots == JQSpecInit /\ [][JQSnapshotNext]_vars

\* the job queue and a caller that replaces registered handlers
SpecJobQueueReplace == JQSpecInit /\ [][JQReplaceNext]_vars

\* the cache alone
CacheSpecInit == RLIdle /\ JQInit /\ CacheInit /\ RBACInit /\ BootIdle

SpecCache == CacheSpecInit /\ [][CacheNext]_vars

\* the event loop runs every ready continuation and every due timer, time
\* passes, and every handler invocation settles
JQFairness ==
    /\ WF_vars(\E l \in DOMAIN loops : LoopResumes(l))
    /\ WF_vars(\E l \in DOMAIN loops : TimerFires(l))
    /\ WF_vars(Tick)
    /\ WF_vars(\E l \in DOMAIN loops :
                  HandlerResolves(l)
                  \/ \E thrown \in Throwables : HandlerRejects(l, thrown))

FairSpecJobQueue == SpecJobQueue /\ JQFairness

\* the access control service alone
RBACSpecInit == RLIdle /\ JQInit /\ CacheIdle /\ RBACInit /\ BootIdle

SpecRBAC == RBACSpecInit /\ [][RBACNext]_vars

\* the bootstrap alone
BootSpecInit == RLIdle /\ JQInit /\ CacheIdle /\ RBACInit /\ BootInit

SpecBootstrap == BootSpecInit /\ [][BootNext]_vars

(***************************************************************************)
(* Properties.                                                             *)
(***************************************************************************)
\* the jobs moveToDeadLetter was ever called on
everDead == {deathLog[d].job : d \in DOMAIN deathLog}

\* the entries of deathLog made because the handler failed
FailureDeaths == {d \in DOMAIN deathLog : Len(deathLog[d].thrown) = 1}

\* the entries of deathLog made because no handler was registered
NoHandlerDeaths == {d \in DOMAIN deathLog : Len(deathLog[d].thrown) = 0}

\* job j is at `await handler(...)` or at `await this.delay(...)`
InFlight(j) ==
    \E l \in DOMAIN loops :
        loops[l].job = j /\ loops[l].pc \in {"handler", "delay"}

\* some job is executing or backing off
Busy == \E l \in DOMAIN loops : loops[l].pc \in {"handler", "delay"}

\* n, or 1 when n is below 1
AtLeastOne(n) == IF n >= 1 THEN n ELSE 1

\* the largest element of a non-empty set of numbers
MaxOf(S) == CHOOSE x \in S : \A y \in S : y <= x

\* the number of admitted calls of identifier whose times lie in
\* [from, from + windowMs)
AdmittedIn(identifier, from) ==
    Cardinality({i \in DOMAIN admitted[identifier] :
                    /\ admitted[identifier][i] >= from
                    /\ admitted[identifier][i] < from + config.windowMs})

\* C1: for every identifier and every interval of length windowMs, at most
\* maxRequests of the isAllowed calls made in it (since the identifier was
\* last reset) returned true.
C1_AdmissionCeiling ==
    \A identifier \in Identifiers : \A from \in 0..MaxNow :
        AdmittedIn(identifier, from) <= config.maxRequests

\* C2 as stated: the handler of a job is invoked at most maxAttempts times,
\* and at least once for a job dead-lettered because its handler failed.
C2_RetryBoundAsStated ==
    \A j \in DOMAIN jobs :
        /\ calls[j] <= jobs[j].maxAttempts
        /\ \A d \in FailureDeaths : deathLog[d].job = j => calls[j] >= 1

\* C2 amended: the handler of a job is invoked at most max(maxAttempts, 1)
\* times, and exactly that often (so at least once, and at most maxAttempts
\* whenever maxAttempts >= 1) for a job dead-lettered because it kept failing.
C2_RetryBound ==
    \A j \in DOMAIN jobs :
        /\ calls[j] <= AtLeastOne(jobs[j].maxAttempts)
        /\ \A d \in FailureDeaths :
              deathLog[d].job = j =>
                 /\ calls[j] >= 1
                 /\ calls[j] = AtLeastOne(jobs[j].maxAttempts)

\* a job enqueued with maxAttempts = 2 was dead-lettered after two invocations
C2_Witness ==
    \E d \in FailureDeaths :
        /\ jobs[deathLog[d].job].maxAttempts = 2
        /\ calls[deathLog[d].job] = 2

C3_DeadLetterRecord ==
    \A d \in FailureDeaths :
        LET job    == jobs[deathLog[d].job]
            thrown == deathLog[d].thrown[1]
        IN  /\ job.attempts = AtLeastOne(job.maxAttempts)
            /\ job.error = <<IF thrown.isError THEN thrown.message
                                               ELSE "Unknown error">>

FailedStep(j) ==
    \E l \in DOMAIN loops :
        /\ loops[l].pc = "handler"
        /\ loops[l].job = j
        /\ ~jobs'[j].processedAt
        /\ (l \in DOMAIN loops' => loops'[l].pc # "handler" \/ loops'[l].job # j)

\* this step dequeues job j while no handler is registered for its type
NoHandlerDequeue(j) ==
    /\ Len(dequeueLog') = Len(dequeueLog) + 1
    /\ dequeueLog'[Len(dequeueLog')] = j
    /\ jobs'[j].type \notin DOMAIN handlers

\* this step calls moveToDeadLetter on job j
NewlyDead(j) ==
    \E d \in (DOMAIN deathLog') \ (DOMAIN deathLog) : deathLog'[d].job = j

\* after this step job j waits for its backoff delay
BackingOff(j) ==
    \E l \in DOMAIN loops' : loops'[l].pc = "delay" /\ loops'[l].job = j

C5_UnregisteredHandler ==
    \A d \in NoHandlerDeaths :
        LET j == deathLog[d].job
        IN  /\ jobs[j].attempts = 0
            /\ calls[j] = 0
            /\ jobs[j].error = <<"No handler registered">>
            /\ Cardinality(Positions(appendLog, j)) = 1
            /\ ~InFlight(j)

\* a job was dead-lettered for want of a handler although a handler was
\* registered for its type afterwards
C5_Witness ==
    \E d \in NoHandlerDeaths :
        jobs[deathLog[d].job].type \in DOMAIN handlers

\* C6: at most one activation of process() exists, the processing flag is
\* set exactly while it exists, and at most one handler invocation is in
\* flight, whenever enqueue is called.
C6_SingleLoop ==
    /\ Len(loops) <= 1
    /\ processing <=> Len(loops) = 1
    /\ Cardinality({l \in DOMAIN loops : loops[l].pc = "handler"}) <= 1
    /\ Cardinality({l \in DOMAIN loops : loops[l].pc = "delay"}) <= 1

\* enqueue was called while the handler of the first job was awaited: the
\* second job waits in the queue and no second loop was started
C6_Witness ==
    /\ Len(loops) = 1
    /\ loops[1].pc = "handler"
    /\ loops[1].job = 1
    /\ queue = <<2>>

\* C7: no job is in the pending queue and in the dead-letter sink at once,
\* and a job moveToDeadLetter was called on is never again in the pending
\* queue, at a handler, or waiting for a retry, and is dead-lettered once.
C7_Placement ==
    \A j \in DOMAIN jobs :
        /\ ~(InSeq(queue, j) /\ InSeq(deadLetterQueue, j))
        /\ j \in everDead =>
              /\ ~InSeq(queue, j)
              /\ ~InFlight(j)
              /\ Cardinality({d \in DOMAIN deathLog : deathLog[d].job = j}) = 1

\* a job is in the dead-letter sink while the loop goes on with a later job
C7_Witness ==
    \E j \in everDead :
        /\ InSeq(deadLetterQueue, j)
        /\ \E l \in DOMAIN loops : loops[l].pc = "handler" /\ loops[l].job # j

\* jobs leave the queue in the order they were pushed on it
C8_QueueOrder ==
    /\ Len(dequeueLog) <= Len(appendLog)
    /\ dequeueLog = SubSeq(appendLog, 1, Len(dequeueLog))
    /\ queue = SubSeq(appendLog, Len(dequeueLog) + 1, Len(appendLog))

\* this step takes a job from the queue or invokes a handler
C8_StartsJob ==
    \/ Len(dequeueLog') > Len(dequeueLog)
    \/ \E j \in DOMAIN calls' :
          calls'[j] > (IF j \in DOMAIN calls THEN calls[j] ELSE 0)

\* C8: jobs are dequeued from the head in push order, and no step dequeues a
\* job or invokes a handler while a job is executing or backing off.
C8_FifoHeadOfLine ==
    /\ []C8_QueueOrder
    /\ [][C8_StartsJob => ~Busy]_vars

\* a job waits in the queue while another job backs off
C8_Witness ==
    /\ \E l \in DOMAIN loops : loops[l].pc = "delay" /\ loops[l].elapsed = 0
    /\ Len(queue) > 0

\* this step ends the backoff delay of activation l
DelayEnds(l) ==
    /\ loops[l].pc = "delay"
    /\ (l \in DOMAIN loops' => loops'[l].pc # "delay")

\* this step dequeues job j for a retry
RetryDequeue(j) ==
    /\ Len(dequeueLog') = Len(dequeueLog) + 1
    /\ dequeueLog'[Len(dequeueLog')] = j
    /\ j \in DOMAIN jobs
    /\ jobs[j].attempts >= 1

\* C9: the step that ends a backoff delay appends the job to the tail of the
\* pending queue, and when the job is dequeued for its retry exactly the jobs
\* pushed before its re-append have been dequeued before it.
C9_RetryAtTail ==
    [][/\ \A l \in DOMAIN loops :
             DelayEnds(l) => queue' = Append(queue, loops[l].job)
       /\ \A j \in DOMAIN jobs :
             RetryDequeue(j)
                => Len(dequeueLog') = MaxOf(Positions(appendLog, j))]_vars

\* the second job was enqueued before the first job's re-append and was
\* dequeued before the first job's retry
C9_Witness ==
    /\ appendLog = <<1, 2, 1>>
    /\ dequeueLog = <<1, 2, 1>>

\* the delay a job with the given attempts counter waits for
C10_Expected(k) == (2 ^ k) * 1000

\* a pending backoff delay is 2^attempts * 1000 ms, attempts being below
\* maxAttempts
C10_PendingDelay ==
    \A l \in DOMAIN loops :
        loops[l].pc = "delay" =>
            LET job == jobs[loops[l].job]
            IN  /\ job.attempts >= 1
                /\ job.attempts < job.maxAttempts
                /\ loops[l].delayMs = C10_Expected(job.attempts)
                /\ job.attempts = 1 => loops[l].delayMs = 2000
                /\ job.attempts = 2 => loops[l].delayMs = 4000

\* C10: the delay requested after the failure of attempt k < maxAttempts is
\* 2^k * 1000 ms, and the job is re-appended when that time has elapsed.
C10_Backoff ==
    /\ []C10_PendingDelay
    /\ [][\A l \in DOMAIN loops :
             DelayEnds(l) =>
                loops[l].elapsed = C10_Expected(jobs[loops[l].job].attempts)]_vars

\* the 2000 ms after a first failed attempt have elapsed
C10_Witness ==
    \E l \in DOMAIN loops :
        /\ loops[l].pc = "delay"
        /\ jobs[loops[l].job].attempts = 1
        /\ loops[l].delayMs = 2000
        /\ loops[l].elapsed = 2000

C21_SuccessTerminal ==
    /\ [](\A j \in DOMAIN jobs :
             /\ jobs[j].processedAt <=> InSeq(successLog, j)
             /\ Cardinality(Positions(successLog, j)) <= 1
             /\ jobs[j].processedAt =>
                   /\ ~InSeq(queue, j)
                   /\ ~InSeq(deadLetterQueue, j)
                   /\ j \notin everDead
                   /\ ~InFlight(j))
    /\ [][\A j \in DOMAIN jobs :
             jobs[j].processedAt =>
                /\ jobs'[j].processedAt
                /\ calls'[j] = calls[j]
                /\ jobs'[j].attempts = jobs[j].attempts]_vars

\* a job succeeded at its second attempt and the loop has gone on to the
\* next job
C21_Witness ==
    \E j \in DOMAIN jobs :
        /\ jobs[j].processedAt
        /\ calls[j] = 2
        /\ \E l \in DOMAIN loops : loops[l].pc = "handler" /\ loops[l].job # j


\* the state the queue keeps apart from the Job objects
QueueSide ==
    <<queue, deadLetterQueue, handlers, processing, loops, calls, appendLog,
      dequeueLog, deathLog, returned, escaped, successLog>>

\* what the caller does with a returned array leaves the dead-letter sink
\* and the fields of the jobs in it as they were
C22_CallerCannotAlterSink ==
    [][UNCHANGED QueueSide =>
          \A i \in DOMAIN deadLetterQueue :
              jobs'[deadLetterQueue[i]] = jobs[deadLetterQueue[i]]]_vars

\* what the queue does leaves a returned array and the fields of the jobs
\* in it as they were
C22_QueueCannotAlterSnapshot ==
    [][QueueSide' # QueueSide /\ snapshots # <<>> =>
          /\ snapshots' = snapshots
          /\ \A i \in DOMAIN snapshots[1] :
                jobs'[snapshots[1][i]] = jobs[snapshots[1][i]]]_vars

\* C22: getDeadLetterQueue returns a copy: whatever the caller does with the
\* returned array, the sink holds the same jobs with the same field values
\* afterwards, and later dead-letterings or clearDeadLetterQueue do not alter
\* an array already returned.
C22_SnapshotIsolation ==
    /\ C22_CallerCannotAlterSink
    /\ C22_QueueCannotAlterSnapshot


\* nothing is pending, no loop is active, and every job enqueued has
\* succeeded or was dead-lettered
C25_Quiescent ==
    /\ queue = <<>>
    /\ ~processing
    /\ loops = <<>>
    /\ \A j \in DOMAIN jobs : jobs[j].processedAt \/ j \in everDead

C27_IdleEnqueueNoHandler(j) ==
    /\ Len(jobs') = Len(jobs) + 1
    /\ j = Len(jobs')
    /\ ~processing
    /\ jobs'[j].type \notin DOMAIN handlers

\* this step invokes a handler for job j
C27_Invokes(j) == j \in DOMAIN calls /\ calls'[j] > calls[j]

\* C27: an enqueue call on an idle queue for a type without handler returns
\* with the job in the dead-letter sink; a job dead-lettered for want of a
\* handler is never handed to a handler registered later; and the handler
\* invoked for an attempt is the one registered for the job's type in the
\* step that dequeues the job for that attempt, whatever is registered while
\* the attempt runs.
C27_HandlerLookupTiming ==
    /\ [][/\ \A j \in DOMAIN jobs' :
                C27_IdleEnqueueNoHandler(j) =>
                   /\ InSeq(deadLetterQueue', j)
                   /\ jobs'[j].error = <<"No handler registered">>
                   /\ Len(returned') = Len(returned) + 1
          /\ \A j \in DOMAIN jobs :
                C27_Invokes(j) =>
                   /\ Len(dequeueLog') = Len(dequeueLog) + 1
                   /\ dequeueLog'[Len(dequeueLog')] = j
                   /\ jobs[j].type \in DOMAIN handlers
                   /\ \E l \in DOMAIN loops' :
                         /\ loops'[l].pc = "handler"
                         /\ loops'[l].job = j
                         /\ loops'[l].handler = handlers[jobs[j].type]
          /\ \A l \in DOMAIN loops :
                /\ loops[l].pc = "handler"
                /\ l \in DOMAIN loops'
                /\ loops'[l].pc = "handler"
                => loops'[l] = loops[l]]_vars
    /\ [](\A d \in NoHandlerDeaths :
             calls[deathLog[d].job] = 0 /\ ~InFlight(deathLog[d].job))

\* a job was dead-lettered for want of a handler, a handler was registered
\* for its type afterwards, and the handler of a running attempt of another
\* job was replaced while the attempt runs
C27_Witness ==
    /\ \E d \in NoHandlerDeaths :
          jobs[deathLog[d].job].type \in DOMAIN handlers
    /\ \E l \in DOMAIN loops :
          /\ loops[l].pc = "handler"
          /\ loops[l].handler # handlers[jobs[loops[l].job].type]


\* this step is a call of isAllowed(identifier)
IsAllowedStep(identifier) ==
    /\ rlResult'.op = "isAllowed"
    /\ rlResult'.identifier = identifier
    /\ now' = now
    /\ limits' # limits \/ rlResult' # rlResult \/ admitted' # admitted

\* the timestamps recorded for identifier
Recorded(identifier) ==
    IF identifier \in DOMAIN limits THEN limits[identifier].requests ELSE <<>>

\* C16: with maxRequests = m >= 1, counting from an identifier's first call:
\* a call made less than windowMs after the first call returns true exactly
\* when fewer than m calls were made before it (true for the first m calls,
\* false for the next), and the first call made windowMs or more after the
\* first call returns true.
C16_WindowSequence ==
    [][\A identifier \in Identifiers :
          IsAllowedStep(identifier) /\ config.maxRequests >= 1 =>
             LET a == admitted[identifier]
             IN  /\ a = <<>> => rlResult'.value = 1
                 /\ a # <<>> /\ now - a[1] < config.windowMs
                       => (rlResult'.value = 1 <=> Len(a) < config.maxRequests)
                 /\ /\ a # <<>>
                    /\ now - a[1] >= config.windowMs
                    /\ \A i \in DOMAIN a : a[i] - a[1] < config.windowMs
                    => rlResult'.value = 1]_vars

\* with maxRequests = 1 the identifier was admitted at its first call and
\* again at the call made when windowMs had elapsed since the first call
C16_Witness ==
    \E identifier \in Identifiers :
        /\ config.maxRequests = 1
        /\ Len(admitted[identifier]) = 2
        /\ admitted[identifier][2] = admitted[identifier][1] + config.windowMs
        /\ rlResult = [op |-> "isAllowed", identifier |-> identifier, value |-> 1]
        /\ now = admitted[identifier][2]

\* C17 as stated: an isAllowed call for an identifier that has no entry
\* returns true, whatever the configuration.
C17_FirstCheckAsStated ==
    [][\A identifier \in Identifiers :
          IsAllowedStep(identifier) /\ identifier \notin DOMAIN limits
             => rlResult'.value = 1]_vars

\* C17 amended: an isAllowed call for an identifier that has no entry returns
\* true exactly when maxRequests >= 1; with maxRequests = 0 it returns false.
C17_FirstCheck ==
    [][\A identifier \in Identifiers :
          IsAllowedStep(identifier) /\ identifier \notin DOMAIN limits
             => (rlResult'.value = 1 <=> config.maxRequests >= 1)]_vars

\* the only identifier tracked was admitted by the call that created its
\* entry
C17_Witness ==
    \E identifier \in Identifiers :
        /\ DOMAIN limits = {identifier}
        /\ limits[identifier] = [requests |-> <<now>>, lastReset |-> now]
        /\ admitted[identifier] = <<now>>
        /\ rlResult = [op |-> "isAllowed", identifier |-> identifier, value |-> 1]

\* C18: an isAllowed call that returns false records no timestamp (the
\* entry holds no timestamp it did not hold before), and it changes the
\* result of no later isAllowed call: the identifier is admitted again at the
\* time at which it would have been admitted without the denied call.
C18_DenialNotRecorded ==
    [][\A identifier \in Identifiers :
          IsAllowedStep(identifier) /\ rlResult'.value = 0 =>
             /\ identifier \in DOMAIN limits'
             /\ Len(limits'[identifier].requests) <= Len(Recorded(identifier))
             /\ \A i \in DOMAIN limits'[identifier].requests :
                   InSeq(Recorded(identifier), limits'[identifier].requests[i])
             /\ admitted' = admitted
             /\ \A t \in now..MaxNow :
                   IsAllowed(limits', config, identifier, t).result
                      = IsAllowed(limits, config, identifier, t).result]_vars

\* a call was denied because maxRequests >= 1 timestamps are in the window
C18_Witness ==
    \E identifier \in Identifiers :
        /\ config.maxRequests >= 1
        /\ rlResult = [op |-> "isAllowed", identifier |-> identifier, value |-> 0]
        /\ Len(Recorded(identifier)) = config.maxRequests
        /\ \A i \in DOMAIN Recorded(identifier) :
              now - Recorded(identifier)[i] < config.windowMs

\* the number of recorded timestamps of identifier that lie within windowMs
\* before clock time t
C19_InWindowCount(identifier, t) ==
    Cardinality({i \in DOMAIN Recorded(identifier) :
                    t - Recorded(identifier)[i] < config.windowMs})

C28_QueryDecisionConsistency ==
    \A identifier \in Identifiers :
        IsAllowed(limits, config, identifier, now).result
           <=> GetRemainingRequests(limits, config, identifier, now) > 0

\* limits with the entries of all identifiers but b removed
OnlyEntry(b) == [x \in (DOMAIN limits) \cap {b} |-> limits[x]]

\* this step is a call of isAllowed, getRemainingRequests or reset for
\* identifier a
C29_CallOn(a) ==
    /\ rlResult'.op \in {"isAllowed", "getRemainingRequests", "reset"}
    /\ rlResult'.identifier = a
    /\ now' = now
    /\ limits' # limits \/ rlResult' # rlResult \/ admitted' # admitted

\* C29: a call of isAllowed, getRemainingRequests or reset for an identifier
\* leaves the entry of every other identifier as it was (reset(a) removes
\* a's entry only), and what isAllowed(b) and getRemainingRequests(b) return
\* and store is a function of b's entry, the configuration and the clock:
\* two runs that agree on the calls for b and their times agree on every
\* result for b.
C29_IdentifierIsolation ==
    /\ [][\A a \in Identifiers :
             C29_CallOn(a) =>
                /\ rlResult'.op = "reset" => a \notin DOMAIN limits'
                /\ \A b \in Identifiers \ {a} :
                      /\ b \in DOMAIN limits' <=> b \in DOMAIN limits
                      /\ b \in DOMAIN limits => limits'[b] = limits[b]]_vars
    /\ [](\A b \in Identifiers :
             LET all  == IsAllowed(limits, config, b, now)
                 only == IsAllowed(OnlyEntry(b), config, b, now)
             IN  /\ all.result = only.result
                 /\ all.limits[b] = only.limits[b]
                 /\ GetRemainingRequests(limits, config, b, now)
                       = GetRemainingRequests(OnlyEntry(b), config, b, now))

\* reset was called for one identifier while another identifier has a
\* recorded timestamp, which is still there
C29_Witness ==
    \E a \in Identifiers : \E b \in Identifiers \ {a} :
        /\ rlResult = [op |-> "reset", identifier |-> a, value |-> 0]
        /\ a \notin DOMAIN limits
        /\ b \in DOMAIN limits
        /\ limits[b].requests # <<>>


\* this step is a call of set(key, ...) that changed the cache
SetStep(key) ==
    /\ cacheResult'.op = "set"
    /\ cacheResult'.key = key
    /\ store' # store \/ written' # written

\* key comes before other in the iteration order of st
Before(st, key, other) ==
    \E i, k \in DOMAIN st : i < k /\ st[i].key = key /\ st[k].key = other

\* C12: a cache constructed with maxSize >= 1 never holds more than maxSize
\* entries, whatever calls are made with whatever string keys.
C12_CapacityInvariant ==
    maxSize >= 1 => cacheSize(store) <= maxSize

\* C13: a set of a key that is not present, on a cache holding maxSize
\* entries, removes exactly one entry, the one whose key is first in insertion
\* order, and appends the new key; TTLs and reads play no part.
C13_FifoEviction ==
    [][\A key \in CacheKeys :
          SetStep(key) /\ ~StoreHas(store, key) /\ cacheSize(store) = maxSize
             => StoreKeys(store') = Append(Tail(StoreKeys(store)), key)]_vars

\* what get(key) returns now, for a key whose last set is on record
C14_Expected(key) ==
    IF now <= written[key].deadline THEN <<written[key].value>> ELSE <<>>

\* C14: while a key's last set(key, v, ttl), made at time t, has not been
\* followed by a set, delete or eviction of the key, get(key) returns v at
\* every time <= t + ttl and null at every later time, whether or not cleanup
\* ran in between; has(key) is true exactly when get(key) is not null.
C14_Expiry ==
    \A key \in DOMAIN written :
        /\ cacheGet(store, key, now).result = C14_Expected(key)
        /\ cacheHas(store, key, now).result = (C14_Expected(key) # <<>>)

\* cleanup has just run at the deadline of one key, which is still held,
\* and past the deadline of another key, which is gone
C14_Witness ==
    /\ cleanRun = <<now>>
    /\ \E key \in DOMAIN written :
          written[key].deadline = now /\ StoreHas(store, key)
    /\ \E key \in DOMAIN written :
          written[key].deadline < now /\ ~StoreHas(store, key)

\* C15: a set on a key that is present keeps the key, and keeps its place in
\* the insertion order relative to every other key that stays, in every state.
C15_ResetKeepsPosition ==
    [][\A key \in CacheKeys :
          SetStep(key) /\ StoreHas(store, key)
             => /\ StoreHas(store', key)
                /\ \A other \in (KeySet(store) \cap KeySet(store')) \ {key} :
                      Before(store, key, other) <=> Before(store', key, other)]_vars

\* C20 as stated: a cleanup call that follows a cleanup call, no other call
\* on the cache in between, leaves size() as it was.
C20_CleanupIdempotentAsStated ==
    [][Len(cleanRun) >= 1 /\ Len(cleanRun') = 2
          => cacheSize(store') = cacheSize(store)]_vars

\* C20 amended: a cleanup call that follows a cleanup call made at the same
\* clock reading, no other call on the cache in between, leaves size() as it
\* was; when the clock has moved on between the two calls the second call can
\* only make size() smaller.
C20_CleanupIdempotent ==
    [][Len(cleanRun) >= 1 /\ Len(cleanRun') = 2
          => /\ cacheSize(store') <= cacheSize(store)
             /\ cleanRun'[1] = cleanRun'[2]
                   => cacheSize(store') = cacheSize(store)]_vars

\* cleanup ran twice at one clock reading, after an entry had expired, and an
\* entry that has not expired is still held
C20_Witness ==
    /\ Len(cleanRun) = 2
    /\ cleanRun[1] = now /\ cleanRun[2] = now
    /\ store # <<>>
    /\ \E key \in DOMAIN written :
          written[key].deadline < now /\ ~StoreHas(store, key)

\* C30: a set on a key that is present removes no other key from the store,
\* in every state, the store holding maxSize entries included.
C30_OverwriteEvictsNothing ==
    [][\A key \in CacheKeys :
          SetStep(key) /\ StoreHas(store, key)
             => (KeySet(store) \ {key}) \subseteq KeySet(store')]_vars

(***************************************************************************)
(* RBACService and RuntimeBootstrap                                        *)
(***************************************************************************)
\* the user of the last call holds the role
Holds(role) ==
    \E i \in DOMAIN rbacCall.userRoles : rbacCall.userRoles[i] = role

\* a role of the user of the last call lists the pair asked for
SomeRoleListsThePair ==
    \E i \in DOMAIN rbacCall.userRoles :
        /\ rbacCall.userRoles[i] \in DOMAIN createDefaultRoles
        /\ \E k \in DOMAIN createDefaultRoles[rbacCall.userRoles[i]] :
              createDefaultRoles[rbacCall.userRoles[i]][k] =
                  [resource |-> rbacCall.resource, action |-> rbacCall.action]

\* C23: with the role map of createDefaultRoles, hasPermission grants a user
\* holding the admin role every (resource, action) pair; a user with no roles
\* is denied, and so is a user without the admin role none of whose roles
\* lists the pair.
C23_AdminGrantedOthersDenied ==
    rbacCall.op # "none" =>
        /\ Holds("admin") => rbacResult.granted
        /\ Len(rbacCall.userRoles) = 0 => ~rbacResult.granted
        /\ (~Holds("admin") /\ ~SomeRoleListsThePair) => ~rbacResult.granted

\* the steps a start() with this config runs when none of them fails
EnabledSteps(cfg) ==
    SelectSeq(BootSteps, LAMBDA step : StepEnabled(cfg, step))

\* the same, the registration of the shutdown handlers taken as unconditional
EnabledStepsRegistrationAlways(cfg) ==
    SelectSeq(BootSteps, LAMBDA step : step = "setupGracefulShutdown"
                                        \/ StepEnabled(cfg, step))

\* the sequence a is the beginning of the sequence b
IsPrefix(a, b) == Len(a) <= Len(b) /\ a = SubSeq(b, 1, Len(a))

\* the steps called so far are the beginning of `expected`; a failed step is
\* the last step called, the completion is not reported and start() rejected
\* with the error of that step; a reported completion means every expected
\* step ran, none failed and start() fulfilled
OrderedAndFailStop(expected) ==
    /\ IsPrefix(bootLog, expected)
    /\ bootFailure # <<>> =>
          /\ bootLog # <<>>
          /\ bootLog[Len(bootLog)] = bootFailure[1].step
          /\ ~bootCompleted
          /\ bootResult = [state |-> "rejected",
                           error |-> bootFailure[1].error]
    /\ bootCompleted =>
          /\ bootLog = expected
          /\ bootFailure = <<>>
          /\ bootResult.state = "resolved"
    /\ bootResult.state = "resolved" => bootCompleted
    /\ bootResult.state = "rejected" => bootFailure # <<>>

\* C24 as stated: start() runs environment validation, database connection,
\* migrations (when enabled), health checks (when enabled), service
\* initialisation and graceful-shutdown registration, strictly in this order;
\* if a step fails no later step is executed, the completion is never
\* reported and start() rejects with that step's error.
C24_BootstrapOrderingAsStated ==
    bootPc # "idle" =>
        OrderedAndFailStop(EnabledStepsRegistrationAlways(bootConfig))

\* C24: start() runs environment validation, database connection, migrations
\* (when enabled), health checks (when enabled), service initialisation and
\* graceful-shutdown registration (when enabled), strictly in this order; if
\* a step fails no later step is executed, the completion is never reported
\* and start() rejects with that step's error.
C24_BootstrapOrdering ==
    bootPc # "idle" => OrderedAndFailStop(EnabledSteps(bootConfig))

\* the health check of a start() with every step enabled reported an unhealthy
\* database, after the migrations ran
C24_Witness ==
    /\ bootFailure = <<[step |-> "performHealthChecks",
                        error |-> "Database health check failed"]>>
    /\ bootLog = SubSeq(BootSteps, 1, 4)
    /\ bootPc = "failed"

=============================================================================
